---- MODULE Spec2Model ----
(***************************************************************************)
(* eloc_metrix: an eLOC/LOC counter for a directory tree.                  *)
(*                                                                         *)
(* Strings are sequences of one-character strings, indexed from 0 as in    *)
(* the source (s[a:b] is Slice(s, a, b)).  The module holds two            *)
(* specifications over one set of variables:                               *)
(*   SpecClassify  count_loc_eloc_for_file, one step per iteration of its  *)
(*                 scan loop, over any sequence of files;                  *)
(*   SpecWalk      main: walk_and_count over a directory tree followed by  *)
(*                 the report.                                             *)
(***************************************************************************)
EXTENDS Integers, Sequences, FiniteSets, TLC

\* ------------------------------------------------------------- bounds
\* Pieces per line of a classified file (a piece is a comment token, the
\* first character of one, or a filler character).
MaxPieces == 3
\* Lines per classified file.
MaxLines == 2

\* ------------------------------------------------------------ strings
None == <<>>

\* chr(32) .. chr(126) without chr(96)
Ascii ==
    <<" ","!","\"","#","$","%","&","'","(",")","*","+",",","-",".","/","0","1","2","3","4","5","6","7","8","9",":",";","<","=",">","?","@","A","B","C","D","E","F","G","H","I","J","K","L","M","N","O","P","Q","R","S","T","U","V","W","X","Y","Z","[","\\","]","^","_","a","b","c","d","e","f","g","h","i","j","k","l","m","n","o","p","q","r","s","t","u","v","w","x","y","z","{","|","}","~">>

UpperLetters ==
    <<"A","B","C","D","E","F","G","H","I","J","K","L","M","N","O","P","Q","R","S","T","U","V","W","X","Y","Z">>

LowerLetters ==
    <<"a","b","c","d","e","f","g","h","i","j","k","l","m","n","o","p","q","r","s","t","u","v","w","x","y","z">>

Whitespace == {" ", "\t"}

SetMin(S) == CHOOSE x \in S : \A y \in S : x <= y

SetMax(S) == CHOOSE x \in S : \A y \in S : x >= y

\* The function that takes keys[k] to values[k] for k in 1..n.
RECURSIVE Table(_, _, _)
Table(keys, values, n) ==
    IF n = 0 THEN <<>> ELSE Table(keys, values, n - 1) @@ (keys[n] :> values[n])

\* The printable ASCII characters in code-point order (the backquote, which a
\* string of this notation cannot hold, is left out): Ord(c) orders characters
\* as ord(c) does.
OrdTable == Table(Ascii, [k \in 1..Len(Ascii) |-> k], Len(Ascii))

Ord(c) == OrdTable[c]

\* The lowercase letter of each uppercase letter.
LowerTable == Table(UpperLetters, LowerLetters, Len(UpperLetters))

LowerChar(c) == IF c \in DOMAIN LowerTable THEN LowerTable[c] ELSE c

\* str.lower()
Lower(t) == [k \in 1..Len(t) |-> LowerChar(t[k])]

\* s[a:b] and s[a:] for 0 <= a
Slice(t, a, b) == SubSeq(t, a + 1, b)

SliceFrom(t, a) == SubSeq(t, a + 1, Len(t))

\* sub occurs in t at the 0-based index k
OccursAt(t, sub, k) ==
    /\ k >= 0
    /\ k + Len(sub) <= Len(t)
    /\ SubSeq(t, k + 1, k + Len(sub)) = sub

\* str.startswith
StartsWith(t, sub) == OccursAt(t, sub, 0)

\* str.find(sub, from): the lowest index >= from where sub occurs, or -1
Find(t, sub, from) ==
    LET hits == {k \in from..(Len(t) - Len(sub)) : OccursAt(t, sub, k)}
    IN  IF hits = {} THEN -1 ELSE SetMin(hits)

\* str.lstrip() and str.strip()
LStrip(t) ==
    LET ks == {k \in 1..Len(t) : t[k] \notin Whitespace}
    IN  IF ks = {} THEN <<>> ELSE SubSeq(t, SetMin(ks), Len(t))

Strip(t) ==
    LET ks == {k \in 1..Len(t) : t[k] \notin Whitespace}
    IN  IF ks = {} THEN <<>> ELSE SubSeq(t, SetMin(ks), SetMax(ks))

\* "".join(chunks)
RECURSIVE Join(_)
Join(chunks) ==
    IF chunks = <<>> THEN <<>> ELSE Head(chunks) \o Join(Tail(chunks))

\* ------------------------------------------- language syntax tables
c_like ==
    { <<".","c">>, <<".","h">>, <<".","c","p","p">>, <<".","c","x","x">>,
      <<".","c","c">>, <<".","h","p","p">>, <<".","h","h">>,
      <<".","h","x","x">>, <<".","j","a","v","a">>, <<".","j","s">>,
      <<".","t","s">>, <<".","t","s","x">>, <<".","j","s","x">>,
      <<".","c","s">>, <<".","g","o">>, <<".","s","w","i","f","t">>,
      <<".","k","t">>, <<".","k","t","s">>, <<".","s","c","a","l","a">>,
      <<".","r","s">>, <<".","d","a","r","t">>, <<".","c","s","s">> }

hash_line ==
    { <<".","p","y">>, <<".","s","h">>, <<".","b","a","s","h">>,
      <<".","z","s","h">>, <<".","r","b">>, <<".","r","a","k","e">>,
      <<".","p","s","1">>, <<".","p","s","m","1">>, <<".","p","s","d","1">>,
      <<".","t","o","m","l">>, <<".","i","n","i">>, <<".","c","f","g">>,
      <<".","c","o","n","f">>, <<".","y","m","l">>, <<".","y","a","m","l">>,
      <<".","e","n","v">>, <<".","m","a","k">>, <<".","m","k">> }

Syntax(prefixes, pairs) == [line_prefixes |-> prefixes, block_pairs |-> pairs]

\* comment_syntax_for_extension with '#' comments for an unknown extension.
comment_syntax_default_hash(e) ==
    LET x == Lower(e)
    IN  IF x \in c_like
        THEN Syntax({<<"/","/">>}, << <<<<"/","*">>, <<"*","/">>>> >>)
        ELSE IF x \in {<<".","p","h","p">>, <<".","p","h","t","m","l">>}
        THEN Syntax({<<"/","/">>, <<"#">>}, << <<<<"/","*">>, <<"*","/">>>> >>)
        ELSE IF x \in {<<".","s","q","l">>}
        THEN Syntax({<<"-","-">>}, << <<<<"/","*">>, <<"*","/">>>> >>)
        ELSE IF x \in {<<".","h","t","m","l">>, <<".","h","t","m">>,
                       <<".","x","m","l">>, <<".","x","h","t","m","l">>}
        THEN Syntax({}, << <<<<"<","!","-","-">>, <<"-","-",">">>>> >>)
        ELSE IF x \in {<<".","l","u","a">>}
        THEN Syntax({<<"-","-">>}, << <<<<"-","-","[","[">>, <<"]","]","-","-">>>> >>)
        ELSE Syntax({<<"#">>}, <<>>)

comment_syntax_for_extension(e) ==
    LET x == Lower(e)
    IN  IF x \in c_like
        THEN Syntax({<<"/","/">>}, << <<<<"/","*">>, <<"*","/">>>> >>)
        ELSE IF x \in hash_line
        THEN Syntax({<<"#">>}, <<>>)
        ELSE IF x \in {<<".","p","h","p">>, <<".","p","h","t","m","l">>}
        THEN Syntax({<<"/","/">>, <<"#">>}, << <<<<"/","*">>, <<"*","/">>>> >>)
        ELSE IF x \in {<<".","s","q","l">>}
        THEN Syntax({<<"-","-">>}, << <<<<"/","*">>, <<"*","/">>>> >>)
        ELSE IF x \in {<<".","h","t","m","l">>, <<".","h","t","m">>,
                       <<".","x","m","l">>, <<".","x","h","t","m","l">>}
        THEN Syntax({}, << <<<<"<","!","-","-">>, <<"-","-",">">>>> >>)
        ELSE IF x \in {<<".","l","u","a">>}
        THEN Syntax({<<"-","-">>}, << <<<<"-","-","[","[">>, <<"]","]","-","-">>>> >>)
        ELSE Syntax({}, <<>>)

mapping ==
    { <<<<".","p","y">>, <<"P","y","t","h","o","n">>>>,
      <<<<".","p","y","w">>, <<"P","y","t","h","o","n">>>>,
      <<<<".","s","h">>, <<"S","h","e","l","l">>>>,
      <<<<".","b","a","s","h">>, <<"S","h","e","l","l">>>>,
      <<<<".","z","s","h">>, <<"S","h","e","l","l">>>>,
      <<<<".","p","s","1">>, <<"P","o","w","e","r","S","h","e","l","l">>>>,
      <<<<".","p","s","m","1">>, <<"P","o","w","e","r","S","h","e","l","l">>>>,
      <<<<".","p","s","d","1">>, <<"P","o","w","e","r","S","h","e","l","l">>>>,
      <<<<".","c">>, <<"C">>>>,
      <<<<".","h">>, <<"C"," ","H","e","a","d","e","r">>>>,
      <<<<".","c","p","p">>, <<"C","+","+">>>>,
      <<<<".","c","c">>, <<"C","+","+">>>>,
      <<<<".","c","x","x">>, <<"C","+","+">>>>,
      <<<<".","h","p","p">>, <<"C","+","+"," ","H","e","a","d","e","r">>>>,
      <<<<".","h","h">>, <<"C","+","+"," ","H","e","a","d","e","r">>>>,
      <<<<".","h","x","x">>, <<"C","+","+"," ","H","e","a","d","e","r">>>>,
      <<<<".","c","s">>, <<"C","#">>>>,
      <<<<".","j","s">>, <<"J","a","v","a","S","c","r","i","p","t">>>>,
      <<<<".","m","j","s">>, <<"J","a","v","a","S","c","r","i","p","t">>>>,
      <<<<".","t","s">>, <<"T","y","p","e","S","c","r","i","p","t">>>>,
      <<<<".","t","s","x">>, <<"T","y","p","e","S","c","r","i","p","t"," ","(","T","S","X",")">>>>,
      <<<<".","j","s","x">>, <<"J","a","v","a","S","c","r","i","p","t"," ","(","J","S","X",")">>>>,
      <<<<".","c","s","s">>, <<"C","S","S">>>>,
      <<<<".","s","c","s","s">>, <<"S","C","S","S">>>>,
      <<<<".","s","a","s","s">>, <<"S","a","s","s">>>>,
      <<<<".","l","e","s","s">>, <<"L","e","s","s">>>>,
      <<<<".","h","t","m","l">>, <<"H","T","M","L">>>>,
      <<<<".","h","t","m">>, <<"H","T","M","L">>>>,
      <<<<".","x","m","l">>, <<"X","M","L">>>>,
      <<<<".","j","a","v","a">>, <<"J","a","v","a">>>>,
      <<<<".","g","o">>, <<"G","o">>>>,
      <<<<".","r","s">>, <<"R","u","s","t">>>>,
      <<<<".","s","w","i","f","t">>, <<"S","w","i","f","t">>>>,
      <<<<".","k","t">>, <<"K","o","t","l","i","n">>>>,
      <<<<".","k","t","s">>, <<"K","o","t","l","i","n"," ","S","c","r","i","p","t">>>>,
      <<<<".","s","c","a","l","a">>, <<"S","c","a","l","a">>>>,
      <<<<".","r","b">>, <<"R","u","b","y">>>>,
      <<<<".","p","h","p">>, <<"P","H","P">>>>,
      <<<<".","l","u","a">>, <<"L","u","a">>>>,
      <<<<".","d","a","r","t">>, <<"D","a","r","t">>>>,
      <<<<".","s","q","l">>, <<"S","Q","L">>>>,
      <<<<".","y","m","l">>, <<"Y","A","M","L">>>>,
      <<<<".","y","a","m","l">>, <<"Y","A","M","L">>>>,
      <<<<".","t","o","m","l">>, <<"T","O","M","L">>>>,
      <<<<".","i","n","i">>, <<"I","N","I">>>>,
      <<<<".","c","f","g">>, <<"C","o","n","f","i","g">>>>,
      <<<<".","c","o","n","f">>, <<"C","o","n","f","i","g">>>>,
      <<<<".","e","n","v">>, <<"C","o","n","f","i","g">>>>,
      <<<<".","m","a","k">>, <<"M","a","k","e","f","i","l","e">>>>,
      <<<<".","m","k">>, <<"M","a","k","e","f","i","l","e">>>> }

language_for_extension(e) ==
    LET x == Lower(e)
    IN  IF \E m \in mapping : m[1] = x
        THEN (CHOOSE m \in mapping : m[1] = x)[2]
        ELSE <<"U","n","k","n","o","w","n">>

\* ------------------------------------------------ line classifier
\* ScanInBlock with the rest of the line dropped once the end token is found.
ScanInBlockDropsRest(t, k, end) ==
    LET end_idx == Find(t, end, k)
    IN  IF end_idx = -1
        THEN [i |-> Len(t), in_block |-> TRUE, current_end |-> end,
              chunks |-> <<>>, brk |-> TRUE]
        ELSE [i |-> Len(t), in_block |-> FALSE, current_end |-> None,
              chunks |-> <<>>, brk |-> TRUE]

\* ScanInBlock with the block comment ended by the end of the line.
ScanInBlockEndsWithLine(t, k, end) ==
    LET end_idx == Find(t, end, k)
    IN  IF end_idx = -1
        THEN [i |-> Len(t), in_block |-> FALSE, current_end |-> None,
              chunks |-> <<>>, brk |-> TRUE]
        ELSE [i |-> end_idx + Len(end), in_block |-> FALSE, current_end |-> None,
              chunks |-> <<>>, brk |-> FALSE]

\* One iteration of the scan loop inside a block comment, at index k of line
\* t with the pending end token: the loop's next index, the scan state, the
\* chunks appended and whether the loop is left by break.
ScanInBlock(t, k, end) ==
    LET end_idx == Find(t, end, k)
    IN  IF end_idx = -1
        THEN [i |-> Len(t), in_block |-> TRUE, current_end |-> end,
              chunks |-> <<>>, brk |-> TRUE]
        ELSE [i |-> end_idx + Len(end), in_block |-> FALSE, current_end |-> None,
              chunks |-> <<>>, brk |-> FALSE]

\* next_starts: for each pair in order whose start token occurs at or after
\* k, <<idx, pair>>
RECURSIVE NextStarts(_, _, _)
NextStarts(t, k, pairs) ==
    IF pairs = <<>>
    THEN <<>>
    ELSE LET idx == Find(t, Head(pairs)[1], k)
         IN  (IF idx # -1 THEN << <<idx, Head(pairs)>> >> ELSE <<>>)
             \o NextStarts(t, k, Tail(pairs))

\* next_starts.sort(key=idx); next_starts[0]: the sort is stable, so the
\* first entry with the least idx
Earliest(ns) ==
    ns[SetMin({j \in 1..Len(ns) : \A m \in 1..Len(ns) : ns[j][1] <= ns[m][1]})]

\* One iteration of the scan loop outside a block comment.
ScanCode(t, k, pairs) ==
    LET next_starts == NextStarts(t, k, pairs)
    IN  IF next_starts = <<>>
        THEN [i |-> k, in_block |-> FALSE, current_end |-> None,
              chunks |-> <<SliceFrom(t, k)>>, brk |-> TRUE]
        ELSE LET first == Earliest(next_starts)
                 idx == first[1]
                 start_tok == first[2][1]
                 end_tok == first[2][2]
             IN  [i |-> idx + Len(start_tok), in_block |-> TRUE,
                  current_end |-> end_tok,
                  chunks |-> <<Slice(t, k, idx)>>, brk |-> FALSE]

\* LineIsCode with a line-comment prefix looked for anywhere in the line.
LineIsCodeAnyPrefix(processed, prefixes) ==
    IF Strip(processed) = <<>>
    THEN 0
    ELSE IF \E lp \in prefixes : Find(processed, lp, 0) # -1 THEN 0 ELSE 1

\* The judgement of a line from its block-comment-free text: 1 when the line
\* is counted as effective code, 0 otherwise.  The source tries the prefixes
\* longest first and stops at the first match: the outcome is whether any
\* prefix matches.
LineIsCode(processed, prefixes) ==
    LET stripped == Strip(processed)
        lstripped == LStrip(processed)
    IN  IF stripped = <<>>
        THEN 0
        ELSE IF prefixes # {}
        THEN (IF \E lp \in prefixes : StartsWith(lstripped, lp) THEN 0 ELSE 1)
        ELSE 1

\* The scan loop of one line run to its end from index k.
RECURSIVE ScanLine(_, _, _, _, _, _)
ScanLine(t, k, chunks, inb, end, pairs) ==
    IF ~(k < Len(t))
    THEN [out_chunks |-> chunks, in_block |-> inb, current_end |-> end]
    ELSE LET r == IF inb THEN ScanInBlock(t, k, end) ELSE ScanCode(t, k, pairs)
         IN  IF r.brk
             THEN [out_chunks |-> chunks \o r.chunks, in_block |-> r.in_block,
                   current_end |-> r.current_end]
             ELSE ScanLine(t, r.i, chunks \o r.chunks, r.in_block,
                           r.current_end, pairs)

\* The loop over the lines of a file: the eLOC of lines from the scan state
\* (inb, end) on, added to n.
RECURSIVE CountLines(_, _, _, _, _)
CountLines(lines, n, inb, end, syn) ==
    IF lines = <<>>
    THEN n
    ELSE LET r == ScanLine(Head(lines), 0, <<>>, inb, end, syn.block_pairs)
         IN  CountLines(Tail(lines),
                        n + LineIsCode(Join(r.out_chunks), syn.line_prefixes),
                        r.in_block, r.current_end, syn)

\* ----------------------------------------------------- model inputs
X == <<"x">>

SP == <<" ">>

HASH == <<"#">>

\* The suffixes of the classified files: one per syntax of the table, one in
\* upper case, one the table does not know.
ClassifySuffixes ==
    { <<".","j","s">>, <<".","J","S">>, <<".","p","y">>, <<".","p","h","p">>,
      <<".","s","q","l">>, <<".","h","t","m","l">>, <<".","l","u","a">>,
      <<".","f","o","o">> }

Tokens(syn) ==
    syn.line_prefixes
        \cup {syn.block_pairs[j][1] : j \in 1..Len(syn.block_pairs)}
        \cup {syn.block_pairs[j][2] : j \in 1..Len(syn.block_pairs)}

\* What the lines of a file are made of: the tokens of its syntax, the first
\* character of each, an empty block comment, a code character and a blank;
\* where the syntax has no token, what starts a comment in other languages.
Pieces(syn) ==
    Tokens(syn) \cup {<<tok[1]>> : tok \in Tokens(syn)} \cup {X, SP}
        \cup {syn.block_pairs[j][1] \o syn.block_pairs[j][2] :
                  j \in 1..Len(syn.block_pairs)}
        \cup (IF Tokens(syn) = {} THEN {HASH, <<"/","/">>} ELSE {})

RECURSIVE LinesOfPieces(_, _)
LinesOfPieces(P, n) ==
    IF n = 0
    THEN {<<>>}
    ELSE LET shorter == LinesOfPieces(P, n - 1)
         IN  shorter \cup {l \o piece : l \in shorter, piece \in P}

\* The lines a file of each (lowercased) suffix may hold.
LinesFor ==
    [e \in {Lower(x) : x \in ClassifySuffixes} |->
        LinesOfPieces(Pieces(comment_syntax_for_extension(e)), MaxPieces)]

\* ---------------------------------------------------------- state
\* count_loc_eloc_for_file: its position (pc), its locals, and what the call
\* returned (None while it runs).  todo is the number of lines the loop over the file has still to
\* read; the lines of the file are read-only and each is used once, so line k
\* is drawn when the loop reaches it.
VARIABLES pc, ext, line_prefixes, block_pairs, loc, eloc, in_block,
          current_end, todo, s, i, out_chunks, ret

\* Observers of the classified file, written by no statement of the program:
\* line_start is the scan state and eLOC at the start of the current line;
\* obs.nonblank counts the lines read that hold a non-whitespace character;
\* obs.unclosed holds the end token of a block comment that starts at the
\* first character of line 1 while that token has not occurred after it.
VARIABLES line_start, obs

cvars == <<pc, ext, line_prefixes, block_pairs, loc, eloc, in_block,
           current_end, todo, s, i, out_chunks, ret, line_start, obs>>

\* main and walk_and_count: the position (wpc), the exclusion set, the
\* directories os.walk has still to yield (pending, as paths below the
\* root), the directory and the sorted file names the loop is at, the
\* aggregates, the attributes attached to walk_and_count, what the last step
\* printed (out), the report sections printed so far, and the exit code.
VARIABLES wpc, excluded_exts, pending, dpath, filenames, total_eloc,
          total_loc, total_files, results, lang_totals, lang_files, attached,
          out, printed, rc

\* Observers of the walk in progress: last is the last file the loop met
\* (its path, whether it opened, whether its bytes decode, what became of
\* it); seen counts the directories and files listed and tells whether a
\* directory was pruned.
VARIABLES last, seen

wvars == <<wpc, excluded_exts, pending, dpath, filenames, total_eloc,
           total_loc, total_files, results, lang_totals, lang_files, attached,
           out, printed, rc, last, seen>>

\* load_excluded_extensions: the position (lpc), the set exts it builds
\* (load_exts) and what it returned.  lfile and lread observe the file it
\* was called with and the lines the loop has read from it.
VARIABLES lpc, load_exts, lret, lfile, lread

lvars == <<lpc, load_exts, lret, lfile, lread>>

NoLineStart == [in_block |-> FALSE, current_end |-> None, eloc |-> 0]

NoObs == [nonblank |-> 0, unclosed |-> {}]

ClassifyInit ==
    /\ pc = "idle"
    /\ ext = <<>>
    /\ line_prefixes = {}
    /\ block_pairs = <<>>
    /\ loc = 0
    /\ eloc = 0
    /\ in_block = FALSE
    /\ current_end = None
    /\ todo = 0
    /\ s = <<>>
    /\ i = 0
    /\ out_chunks = <<>>
    /\ ret = None
    /\ line_start = NoLineStart
    /\ obs = NoObs

\* The end tokens of the block comments that line 1 opens at its first
\* character and does not close.
OpenedAtStart(raw, pairs) ==
    {pairs[j][2] : j \in {m \in 1..Len(pairs) :
        /\ StartsWith(raw, pairs[m][1])
        /\ Find(raw, pairs[m][2], Len(pairs[m][1])) = -1}}

Observe(o, raw, first, pairs) ==
    [nonblank |-> o.nonblank + (IF Strip(raw) = <<>> THEN 0 ELSE 1),
     unclosed |-> IF first
                  THEN OpenedAtStart(raw, pairs)
                  ELSE {e \in o.unclosed : Find(raw, e, 0) = -1}]

\* Open with the block-comment state left as the file before ended.
OpenKeepsBlockState(suffix, n) ==
    /\ pc \in {"idle", "returned"}
    /\ ext' = Lower(suffix)
    /\ line_prefixes' = comment_syntax_for_extension(ext').line_prefixes
    /\ block_pairs' = comment_syntax_for_extension(ext').block_pairs
    /\ loc' = n
    /\ todo' = n
    /\ eloc' = 0
    /\ ret' = None
    /\ pc' = "for"
    /\ line_start' = NoLineStart
    /\ obs' = NoObs
    /\ UNCHANGED <<wvars, lvars, in_block, current_end, s, i, out_chunks>>

\* The file opens and is read: n lines.
Open(suffix, n) ==
    /\ pc \in {"idle", "returned"}
    /\ ext' = Lower(suffix)
    /\ line_prefixes' = comment_syntax_for_extension(ext').line_prefixes
    /\ block_pairs' = comment_syntax_for_extension(ext').block_pairs
    /\ loc' = n
    /\ todo' = n
    /\ eloc' = 0
    /\ in_block' = FALSE
    /\ current_end' = None
    /\ ret' = None
    /\ pc' = "for"
    /\ line_start' = NoLineStart
    /\ obs' = NoObs
    /\ UNCHANGED <<wvars, lvars, s, i, out_chunks>>

\* The file does not open, or reading it fails: OSError.
OpenFails(suffix) ==
    /\ pc \in {"idle", "returned"}
    /\ ext' = Lower(suffix)
    /\ line_prefixes' = comment_syntax_for_extension(ext').line_prefixes
    /\ block_pairs' = comment_syntax_for_extension(ext').block_pairs
    /\ ret' = <<0, 0>>
    /\ pc' = "returned"
    /\ line_start' = NoLineStart
    /\ obs' = NoObs
    /\ UNCHANGED <<wvars, lvars, loc, eloc, in_block, current_end, todo, s, i, out_chunks>>

\* for raw in lines: the next line.
NextLine(raw) ==
    /\ pc = "for"
    /\ todo > 0
    /\ s' = raw
    /\ i' = 0
    /\ out_chunks' = <<>>
    /\ pc' = IF 0 < Len(raw) THEN "while" ELSE "judge"
    /\ line_start' = [in_block |-> in_block, current_end |-> current_end,
                      eloc |-> eloc]
    /\ obs' = Observe(obs, raw, todo = loc, block_pairs)
    /\ UNCHANGED <<wvars, lvars, ext, line_prefixes, block_pairs, loc, eloc, in_block,
                   current_end, todo, ret>>

\* What an iteration of the scan loop leaves.
Scanned(r) ==
    /\ i' = r.i
    /\ in_block' = r.in_block
    /\ current_end' = r.current_end
    /\ out_chunks' = out_chunks \o r.chunks
    /\ pc' = IF r.brk \/ ~(r.i < Len(s)) THEN "judge" ELSE "while"
    /\ UNCHANGED <<wvars, lvars, ext, line_prefixes, block_pairs, loc, eloc, todo, s, ret,
                   line_start, obs>>

\* An iteration of the scan loop inside a block comment.
WhileInBlock ==
    /\ pc = "while"
    /\ in_block
    /\ IF current_end = None
       THEN /\ pc' = "AssertionError"
            /\ UNCHANGED <<wvars, lvars, ext, line_prefixes, block_pairs, loc, eloc,
                           in_block, current_end, todo, s, i, out_chunks, ret,
                           line_start, obs>>
       ELSE Scanned(ScanInBlock(s, i, current_end))

\* An iteration of the scan loop outside a block comment.
WhileCode ==
    /\ pc = "while"
    /\ ~in_block
    /\ Scanned(ScanCode(s, i, block_pairs))

\* Judge with every non-blank chunk of the line counted.
JudgeCountsChunks ==
    /\ pc = "judge"
    /\ eloc' = eloc + Cardinality({k \in 1..Len(out_chunks) :
                                       Strip(out_chunks[k]) # <<>>})
    /\ pc' = "endline"
    /\ UNCHANGED <<wvars, lvars, ext, line_prefixes, block_pairs, loc, in_block,
                   current_end, todo, s, i, out_chunks, ret, line_start, obs>>

\* After the scan loop: the line is judged.
Judge ==
    /\ pc = "judge"
    /\ eloc' = eloc + LineIsCode(Join(out_chunks), line_prefixes)
    /\ pc' = "endline"
    /\ UNCHANGED <<wvars, lvars, ext, line_prefixes, block_pairs, loc, in_block,
                   current_end, todo, s, i, out_chunks, ret, line_start, obs>>

\* The loop over the lines goes on: the line's own variables are dead.
Continue ==
    /\ pc = "endline"
    /\ todo' = todo - 1
    /\ s' = <<>>
    /\ i' = 0
    /\ out_chunks' = <<>>
    /\ pc' = "for"
    /\ UNCHANGED <<wvars, lvars, ext, line_prefixes, block_pairs, loc, eloc, in_block,
                   current_end, ret, line_start, obs>>

\* return eloc, loc
Return ==
    /\ pc = "for"
    /\ todo = 0
    /\ ret' = <<eloc, loc>>
    /\ pc' = "returned"
    /\ UNCHANGED <<wvars, lvars, ext, line_prefixes, block_pairs, loc, eloc, in_block,
                   current_end, todo, s, i, out_chunks, line_start, obs>>

ClassifyNext ==
    \/ \E suffix \in ClassifySuffixes, n \in 0..MaxLines : Open(suffix, n)
    \/ \E suffix \in ClassifySuffixes : OpenFails(suffix)
    \/ pc = "for" /\ \E raw \in LinesFor[ext] : NextLine(raw)
    \/ WhileInBlock
    \/ WhileCode
    \/ Judge
    \/ Continue
    \/ Return

\* --------------------------------------------------- directory walk
\* More bounds: the directories the walk lists and the files it meets.
MaxDirs == 2

MaxFiles == 2

skip_dirs ==
    { <<".","g","i","t">>, <<".","h","g">>, <<".","s","v","n">>,
      <<".","i","d","e","a">>, <<".","v","s","c","o","d","e">>,
      <<"_","_","p","y","c","a","c","h","e","_","_">>,
      <<"n","o","d","e","_","m","o","d","u","l","e","s">>, <<"d","i","s","t">>,
      <<"b","u","i","l","d">>, <<"o","u","t">>, <<".","t","o","x">>,
      <<".","m","y","p","y","_","c","a","c","h","e">>,
      <<".","p","y","t","e","s","t","_","c","a","c","h","e">>,
      <<".","v","e","n","v">>, <<"v","e","n","v">> }

\* A byte that is not valid UTF-8, and the line feed.
BadByte == "\\xff"

LF == "\n"

\* bytes.decode("utf-8", errors="ignore"): invalid bytes are dropped.
Decode(bytes) == SelectSeq(bytes, LAMBDA b : b # BadByte)

\* str.splitlines(): the text between line feeds, with no last empty line.
RECURSIVE SplitLines(_)
SplitLines(text) ==
    IF text = <<>>
    THEN <<>>
    ELSE LET nl == Find(text, <<LF>>, 0)
         IN  IF nl = -1
             THEN <<text>>
             ELSE <<Slice(text, 0, nl)>> \o SplitLines(SliceFrom(text, nl + 1))

\* PurePath.suffix of a file name: from its last dot, unless that dot is the
\* first or the last character.
Suffix(name) ==
    LET dots == {k \in 0..(Len(name) - 1) : name[k + 1] = "."}
    IN  IF dots = {} \/ SetMax(dots) = 0 \/ SetMax(dots) = Len(name) - 1
        THEN <<>>
        ELSE SliceFrom(name, SetMax(dots))

\* a < b for two strings: decided at the first index where they differ.
RECURSIVE StrLess(_, _)
StrLess(a, b) ==
    IF b = <<>> THEN FALSE
    ELSE IF a = <<>> THEN TRUE
    ELSE IF a[1] = b[1] THEN StrLess(Tail(a), Tail(b))
    ELSE Ord(a[1]) < Ord(b[1])

\* a < b for two tuples of integers of one length
RECURSIVE IntsLess(_, _)
IntsLess(a, b) ==
    IF a = <<>> THEN FALSE
    ELSE IF a[1] = b[1] THEN IntsLess(Tail(a), Tail(b))
    ELSE a[1] < b[1]

\* a < b for two sort keys: a key is a tuple of integers followed by a
\* string, held as the pair of the integers and the string.
KeyLess(a, b) == IntsLess(a[1], b[1]) \/ (a[1] = b[1] /\ StrLess(a[2], b[2]))

\* The order sorted() puts the first n of the keys in, as their indices: the
\* sort is stable, so a key goes behind the placed keys that are not greater.
RECURSIVE SortedIndices(_, _)
SortedIndices(keys, n) ==
    IF n = 0
    THEN <<>>
    ELSE LET placed == SortedIndices(keys, n - 1)
             behind == Cardinality({k \in 1..Len(placed) :
                                       ~KeyLess(keys[n], keys[placed[k]])})
         IN  SubSeq(placed, 1, behind) \o <<n>>
                 \o SubSeq(placed, behind + 1, Len(placed))

\* sorted(xs, key=...), keys[k] being the key of xs[k]
SortedBy(xs, keys) ==
    LET order == SortedIndices(SubSeq(keys, 1, Len(xs)), Len(xs))
    IN  [r \in 1..Len(xs) |-> xs[order[r]]]

\* xs[:n]
Take(xs, n) ==
    IF n >= 0
    THEN SubSeq(xs, 1, IF n < Len(xs) THEN n ELSE Len(xs))
    ELSE SubSeq(xs, 1, IF Len(xs) + n > 0 THEN Len(xs) + n ELSE 0)

\* str(path) of a path below the root, given by its parts: the root's own
\* string, the same for every path of a run, is left out.
RECURSIVE PathStr(_)
PathStr(parts) ==
    IF parts = <<>> THEN <<>> ELSE <<"/">> \o Head(parts) \o PathStr(Tail(parts))

\* A file as the classifier meets it: whether it opens, and its bytes.
FileOf(opens, bytes) == [opens |-> opens, bytes |-> bytes]

\* The whole of count_loc_eloc_for_file for the file of that name.
count_loc_eloc_for_file(name, file) ==
    LET syn == comment_syntax_for_extension(Lower(Suffix(name)))
    IN  IF ~file.opens
        THEN <<0, 0>>
        ELSE LET lines == SplitLines(Decode(file.bytes))
             IN  <<CountLines(lines, 0, FALSE, None, syn), Len(lines)>>

\* The key of the Top and per-language rankings with the path as it is.
TopKeyCaseSensitive(r) == << <<0 - r[2], 0 - r[3]>>, PathStr(r[1]) >>

\* The key of the Top and per-language rankings: (-eloc, -loc, path.lower()).
TopKey(r) == << <<0 - r[2], 0 - r[3]>>, Lower(PathStr(r[1])) >>

\* The key of the Latest ranking: (-mtime, path.lower()).
LatestKey(r) == << <<0 - r[4]>>, Lower(PathStr(r[1])) >>

Unknown == <<"U","n","k","n","o","w","n">>

\* The key of the language summary with Unknown ranked by its totals.
LangKeyByTotals(item) == << <<0, 0 - item[3], 0 - item[4]>>, Lower(item[1]) >>

\* The key of the language summary:
\* (1 if Unknown else 0, -eloc, -loc, name.lower()).
LangKey(item) ==
    << <<IF item[1] = Unknown THEN 1 ELSE 0, 0 - item[3], 0 - item[4]>>,
       Lower(item[1]) >>

\* A dict as the sequence of its (key, value) items in insertion order.
HasKey(d, key) == \E k \in 1..Len(d) : d[k][1] = key

Get(d, key, default) ==
    IF HasKey(d, key)
    THEN d[CHOOSE k \in 1..Len(d) : d[k][1] = key][2]
    ELSE default

Put(d, key, value) ==
    IF HasKey(d, key)
    THEN [k \in 1..Len(d) |-> IF d[k][1] = key THEN <<key, value>> ELSE d[k]]
    ELSE Append(d, <<key, value>>)

\* The directory and file names of the trees walked ("out" is on the
\* denylist), and the exclusion sets an existing exclusion file gives.
DirNames == { <<"s","r","c">>, <<"o","u","t">> }

FileNames == { <<"a",".","p","y">>, <<"B",".","J","S">>, <<"u">> }

ExclusionSets == { {<<".","j","s">>} }

\* The ranking lengths of the command line, and the modification times: a
\* time, or 0 where stat fails.
TopValues == {1, 2}

Mtimes == {0, 1}

\* The sequences without repetition over a set: the orders a directory may
\* be listed in.
RECURSIVE Orders(_)
Orders(S) ==
    IF S = {}
    THEN {<<>>}
    ELSE UNION {{<<x>> \o rest : rest \in Orders(S \ {x})} : x \in S}

DirListings == UNION {Orders(D) : D \in SUBSET DirNames}

\* What a directory may hold: at most two files.
FileSets == {G \in SUBSET FileNames : Cardinality(G) <= 2}

\* os.walk hands the names over in the order of the directory listing, and
\* the loop takes them sorted: each set of names with sorted(filenames).
SortedListings ==
    {<<G, LET listed == CHOOSE order \in Orders(G) : TRUE
          IN  SortedBy(listed, [k \in 1..Len(listed) |-> <<<<>>, listed[k]>>])>> :
        G \in FileSets}

SortedNames(G) == (CHOOSE pair \in SortedListings : pair[1] = G)[2]

\* The bytes of the files met: empty, one line of code, a blank line, a
\* blank line and a line of code, and a line of code behind an invalid byte.
Texts == { <<>>, <<"x">>, <<LF>>, <<LF, "x">>, <<BadByte, "x">> }

\* The files a name may stand for: unreadable, or one of the texts.
Files == {FileOf(FALSE, <<>>)} \cup {FileOf(TRUE, text) : text \in Texts}

\* What count_loc_eloc_for_file returns for each name and file of the trees
\* walked, as the triples (name, file, result).
Counts ==
    {<<name, file, count_loc_eloc_for_file(name, file)>> :
        name \in FileNames, file \in Files}

CountOf(name, file) ==
    (CHOOSE c \in Counts : c[1] = name /\ c[2] = file)[3]

\* ------------------------------------------------- walk and report
NoLast == [fpath |-> <<>>, opens |-> TRUE, decodes |-> TRUE, fate |-> "none",
           counts |-> <<0, 0>>]

NoSeen == [dirs |-> 0, files |-> 0, pruned |-> FALSE]

WalkIdle ==
    /\ wpc = "start"
    /\ excluded_exts = {}
    /\ pending = <<>>
    /\ dpath = <<>>
    /\ filenames = <<>>
    /\ total_eloc = 0
    /\ total_loc = 0
    /\ total_files = 0
    /\ results = <<>>
    /\ lang_totals = <<>>
    /\ lang_files = <<>>
    /\ attached = [lang_totals |-> <<>>, lang_files |-> <<>>]
    /\ out = <<>>
    /\ printed = {}
    /\ rc = -1
    /\ last = NoLast
    /\ seen = NoSeen

\* main up to the call of walk_and_count, and walk_and_count up to its loop:
\* the root is checked and the exclusion file is loaded (no file name gives
\* the empty set, a missing file the empty set and a note).
MainStart(root_ok, exclude_file, file_exists, exts) ==
    /\ wpc = "start"
    /\ IF ~root_ok
       THEN /\ out' = <<[kind |-> "error"]>>
            /\ rc' = 2
            /\ wpc' = "done"
            /\ UNCHANGED <<excluded_exts, pending>>
       ELSE /\ excluded_exts' = IF exclude_file /\ file_exists THEN exts ELSE {}
            /\ out' = IF exclude_file /\ ~file_exists
                       THEN <<[kind |-> "note"]>>
                       ELSE <<>>
            /\ pending' = << <<>> >>
            /\ wpc' = "walk"
            /\ UNCHANGED rc
    /\ UNCHANGED <<cvars, lvars, dpath, filenames, total_eloc, total_loc,
                   total_files, results, lang_totals, lang_files, attached,
                   printed, last, seen>>

\* VisitDir with every subdirectory kept.
VisitDirNoPrune(dirnames, fnames) ==
    /\ wpc = "walk"
    /\ filenames = <<>>
    /\ pending # <<>>
    /\ seen.dirs + Len(pending) + Len(dirnames) <= MaxDirs
    /\ seen.files + Cardinality(fnames) <= MaxFiles
    /\ dpath' = Head(pending)
    /\ pending' = [k \in 1..Len(dirnames) |-> Append(Head(pending), dirnames[k])]
                      \o Tail(pending)
    /\ out' = <<[kind |-> "dir", depth |-> Len(Head(pending)),
                 label |-> Head(pending)]>>
    /\ printed' = printed \cup {"tree"}
    /\ filenames' = SortedNames(fnames)
    /\ seen' = [dirs |-> seen.dirs + 1,
                 files |-> seen.files + Cardinality(fnames),
                 pruned |-> seen.pruned]
    /\ UNCHANGED <<cvars, lvars, wpc, excluded_exts, total_eloc, total_loc,
                   total_files, results, lang_totals, lang_files, attached, rc,
                   last>>

\* os.walk yields the next directory with its listing: the denylisted
\* subdirectories are pruned, the header is printed, the files are sorted.
VisitDir(dirnames, fnames) ==
    /\ wpc = "walk"
    /\ filenames = <<>>
    /\ pending # <<>>
    /\ LET kept == SelectSeq(dirnames, LAMBDA d : d \notin skip_dirs)
       IN  /\ seen.dirs + Len(pending) + Len(kept) <= MaxDirs
           /\ seen.files + Cardinality(fnames) <= MaxFiles
           /\ dpath' = Head(pending)
           /\ pending' = [k \in 1..Len(kept) |-> Append(Head(pending), kept[k])]
                             \o Tail(pending)
           /\ seen' = [dirs |-> seen.dirs + 1,
                       files |-> seen.files + Cardinality(fnames),
                       pruned |-> seen.pruned \/ Len(kept) < Len(dirnames)]
    /\ out' = <<[kind |-> "dir", depth |-> Len(Head(pending)),
                 label |-> Head(pending)]>>
    /\ printed' = printed \cup {"tree"}
    /\ filenames' = SortedNames(fnames)
    /\ UNCHANGED <<cvars, lvars, wpc, excluded_exts, total_eloc, total_loc,
                   total_files, results, lang_totals, lang_files, attached, rc,
                   last>>

\* What the loop over the files leaves when it goes on to the next file.
Skipped(fpath, file, fate, counts) ==
    /\ filenames' = Tail(filenames)
    /\ out' = <<>>
    /\ last' = [fpath |-> fpath, opens |-> file.opens,
                decodes |-> \A k \in 1..Len(file.bytes) : file.bytes[k] # BadByte,
                fate |-> fate, counts |-> counts]
    /\ UNCHANGED <<cvars, lvars, wpc, excluded_exts, pending, dpath, total_eloc,
                   total_loc, total_files, results, lang_totals, lang_files,
                   attached, printed, rc, seen>>

\* Folded with the per-language file count left as it was.
FoldedNoLangCount(fpath, file, e, l) ==
    LET lang == language_for_extension(Lower(Suffix(fpath[Len(fpath)])))
        agg == Get(lang_totals, lang, <<0, 0, 0>>)
    IN  /\ filenames' = Tail(filenames)
        /\ total_eloc' = total_eloc + e
        /\ total_loc' = total_loc + l
        /\ total_files' = total_files + 1
        /\ results' = Append(results, <<fpath, e, l>>)
        /\ out' = <<[kind |-> "file", depth |-> Len(dpath),
                     name |-> fpath[Len(fpath)], eloc |-> e, loc |-> l]>>
        /\ lang_totals' = Put(lang_totals, lang,
                              <<agg[1], agg[2] + e, agg[3] + l>>)
        /\ lang_files' = Put(lang_files, lang,
                             Append(Get(lang_files, lang, <<>>), <<fpath, e, l>>))
        /\ last' = [fpath |-> fpath, opens |-> file.opens,
                    decodes |-> \A k \in 1..Len(file.bytes) : file.bytes[k] # BadByte,
                    fate |-> "counted", counts |-> <<e, l>>]
        /\ UNCHANGED <<cvars, lvars, wpc, excluded_exts, pending, dpath, attached,
                       printed, rc, seen>>

\* The result of a file folded into the aggregates, and its line printed.
Folded(fpath, file, e, l) ==
    LET lang == language_for_extension(Lower(Suffix(fpath[Len(fpath)])))
        agg == Get(lang_totals, lang, <<0, 0, 0>>)
    IN  /\ filenames' = Tail(filenames)
        /\ total_eloc' = total_eloc + e
        /\ total_loc' = total_loc + l
        /\ total_files' = total_files + 1
        /\ results' = Append(results, <<fpath, e, l>>)
        /\ out' = <<[kind |-> "file", depth |-> Len(dpath),
                     name |-> fpath[Len(fpath)], eloc |-> e, loc |-> l]>>
        /\ lang_totals' = Put(lang_totals, lang,
                              <<agg[1] + 1, agg[2] + e, agg[3] + l>>)
        /\ lang_files' = Put(lang_files, lang,
                             Append(Get(lang_files, lang, <<>>), <<fpath, e, l>>))
        /\ last' = [fpath |-> fpath, opens |-> file.opens,
                    decodes |-> \A k \in 1..Len(file.bytes) : file.bytes[k] # BadByte,
                    fate |-> "counted", counts |-> <<e, l>>]
        /\ UNCHANGED <<cvars, lvars, wpc, excluded_exts, pending, dpath, attached,
                       printed, rc, seen>>

\* The body of the loop over the sorted file names, for the next file.
ProcessFile(file) ==
    /\ wpc = "walk"
    /\ filenames # <<>>
    /\ LET fname == Head(filenames)
           fpath == Append(dpath, fname)
           e == Lower(Suffix(fname))
           counts == CountOf(fname, file)
       IN  IF e \in excluded_exts
           THEN Skipped(fpath, file, "excluded", <<0, 0>>)
           ELSE IF counts[2] = 0
           THEN Skipped(fpath, file, "dropped", counts)
           ELSE Folded(fpath, file, counts[1], counts[2])

\* The walk is over: the language aggregates are attached and the totals
\* returned.
WalkReturn ==
    /\ wpc = "walk"
    /\ filenames = <<>>
    /\ pending = <<>>
    /\ attached' = [lang_totals |-> lang_totals, lang_files |-> lang_files]
    /\ out' = <<>>
    /\ wpc' = "summary"
    /\ last' = NoLast
    /\ seen' = NoSeen
    /\ UNCHANGED <<cvars, lvars, excluded_exts, pending, dpath, filenames,
                   total_eloc, total_loc, total_files, results, lang_totals,
                   lang_files, printed, rc>>

Reported ==
    UNCHANGED <<cvars, lvars, excluded_exts, pending, dpath, filenames, total_eloc,
                total_loc, total_files, results, lang_totals, lang_files,
                attached, last, seen>>

\* Summary with the rankings printed whatever the results.
SummaryAlwaysRanks ==
    /\ wpc = "summary"
    /\ out' = <<[kind |-> "summary", files |-> total_files,
                 eloc |-> total_eloc, loc |-> total_loc]>>
    /\ printed' = printed \cup {"summary"}
    /\ wpc' = "top"
    /\ UNCHANGED rc
    /\ Reported

\* The Summary block; without results main returns 0.
Summary ==
    /\ wpc = "summary"
    /\ out' = <<[kind |-> "summary", files |-> total_files,
                 eloc |-> total_eloc, loc |-> total_loc]>>
    /\ printed' = printed \cup {"summary"}
    /\ IF results # <<>>
       THEN wpc' = "top" /\ UNCHANGED rc
       ELSE wpc' = "done" /\ rc' = 0
    /\ Reported

TopRows(rows) ==
    [k \in 1..Len(rows) |->
        [kind |-> "top_row", idx |-> k, path |-> rows[k][1],
         eloc |-> rows[k][2], loc |-> rows[k][3]]]

\* Top N by eLOC.
ReportTop(top_eloc) ==
    /\ wpc = "top"
    /\ out' = <<[kind |-> "top_header", n |-> top_eloc]>>
                  \o TopRows(Take(SortedBy(results, [k \in 1..Len(results) |-> TopKey(results[k])]), top_eloc))
    /\ printed' = printed \cup {"top"}
    /\ wpc' = "latest"
    /\ UNCHANGED rc
    /\ Reported

LatestRows(rows) ==
    [k \in 1..Len(rows) |->
        [kind |-> "latest_row", idx |-> k, path |-> rows[k][1],
         eloc |-> rows[k][2], loc |-> rows[k][3], mtime |-> rows[k][4],
         shown |-> IF rows[k][4] # 0 THEN "timestamp" ELSE "N/A"]]

\* Latest Top M: mtimes[k] is st_mtime of results[k], 0 where stat fails.
ReportLatest(latest, mtimes) ==
    /\ wpc = "latest"
    /\ LET with_times == [k \in 1..Len(results) |->
                             <<results[k][1], results[k][2], results[k][3],
                               mtimes[k]>>]
       IN  out' = <<[kind |-> "latest_header", n |-> latest]>>
                      \o LatestRows(Take(SortedBy(with_times,
                                    [k \in 1..Len(results) |-> LatestKey(with_times[k])]),
                                    latest))
    /\ printed' = printed \cup {"latest"}
    /\ IF attached.lang_totals # <<>>
       THEN wpc' = "languages" /\ UNCHANGED rc
       ELSE wpc' = "done" /\ rc' = 0
    /\ Reported

LangRows(ordered) ==
    [k \in 1..Len(ordered) |->
        [kind |-> "lang", lang |-> ordered[k][1], files |-> ordered[k][2],
         eloc |-> ordered[k][3], loc |-> ordered[k][4]]]

LangFileRows(lang, rows) ==
    [k \in 1..Len(rows) |->
        [kind |-> "lang_row", lang |-> lang, idx |-> k, path |-> rows[k][1],
         eloc |-> rows[k][2], loc |-> rows[k][3]]]

\* The per-language rankings of the languages in top_langs, in order.
RECURSIVE LangLists(_, _, _)
LangLists(top_langs, files_of, top_files_per_lang) ==
    IF top_langs = <<>>
    THEN <<>>
    ELSE LET lang == Head(top_langs)
             files_in_lang == Get(files_of, lang, <<>>)
         IN  <<[kind |-> "lang_top_header", lang |-> lang,
                n |-> top_files_per_lang]>>
             \o LangFileRows(lang,
                             Take(SortedBy(files_in_lang,
                                           [k \in 1..Len(files_in_lang) |->
                                               TopKey(files_in_lang[k])]),
                                  top_files_per_lang))
             \o LangLists(Tail(top_langs), files_of, top_files_per_lang)

\* Languages Summary and the per-language rankings; main returns 0.  The
\* header line is held with args.top_lang, which the line itself does not
\* show.
ReportLanguages(top_lang, top_files_per_lang) ==
    /\ wpc = "languages"
    /\ LET items == [k \in 1..Len(attached.lang_totals) |->
                        <<attached.lang_totals[k][1],
                          attached.lang_totals[k][2][1],
                          attached.lang_totals[k][2][2],
                          attached.lang_totals[k][2][3]>>]
           ordered == SortedBy(items, [k \in 1..Len(items) |-> LangKey(items[k])])
           non_unknown == SelectSeq(ordered, LAMBDA t : t[1] # Unknown)
           picked == Take(non_unknown, top_lang)
           top_langs == [k \in 1..Len(picked) |-> picked[k][1]]
       IN  /\ out' = <<[kind |-> "lang_header", top_lang |-> top_lang]>>
                         \o LangRows(ordered)
                         \o LangLists(top_langs, attached.lang_files,
                                      top_files_per_lang)
           /\ printed' = printed \cup {"languages"}
                             \cup (IF top_langs # <<>> THEN {"toplang"} ELSE {})
    /\ wpc' = "done"
    /\ rc' = 0
    /\ Reported

WalkNext ==
    \/ \E root_ok \in BOOLEAN, exclude_file \in BOOLEAN, file_exists \in BOOLEAN,
          exts \in ExclusionSets :
           MainStart(root_ok, exclude_file, file_exists, exts)
    \/ \E dirnames \in DirListings, fnames \in FileSets : VisitDir(dirnames, fnames)
    \/ \E file \in Files : ProcessFile(file)
    \/ WalkReturn
    \/ Summary
    \/ \E n \in TopValues : ReportTop(n)
    \/ \E n \in TopValues, mtimes \in [1..Len(results) -> Mtimes] :
           ReportLatest(n, mtimes)
    \/ \E n \in TopValues, k \in TopValues : ReportLanguages(n, k)

\* ------------------------------------------------ exclusion file
\* One more bound: the lines of an exclusion file.
MaxExclusionLines == 2

\* The characters str.strip() takes off a line read from a file.
LineWhitespace == Whitespace \cup {LF, "\r"}

\* raw.strip()
StripLine(raw) ==
    LET ks == {k \in 1..Len(raw) : raw[k] \notin LineWhitespace}
    IN  IF ks = {} THEN <<>> ELSE SubSeq(raw, SetMin(ks), SetMax(ks))

\* A kept line added as it is but for the leading dot.
NormalizedKeepsCase(line) ==
    IF ~StartsWith(line, <<".">>) THEN <<".">> \o line ELSE line

\* What a kept line adds to exts: the dot is put in front where the line
\* has none, and the line is lowercased.
Normalized(line) ==
    Lower(IF ~StartsWith(line, <<".">>) THEN <<".">> \o line ELSE line)

\* The lines of the exclusion files loaded, without their line ends: blank
\* lines, comment lines, and entries with and without dot, in either case,
\* with blanks around them and with a '#' behind the first character.
ExclusionLines ==
    { <<>>, <<" ">>, <<"#","m">>, <<" ","#">>, <<"m">>, <<"M">>, <<".","M">>,
      <<" ","m","\t">>, <<"m","#">>, <<".">> }

\* A line as the loop reads it: with its line end, or without it where it is
\* the last line of a file that does not end in one.
RawLines ==
    {body \o <<LF>> : body \in ExclusionLines}
        \cup (ExclusionLines \ {<<>>})

LoadIdle ==
    /\ lpc = "idle"
    /\ load_exts = {}
    /\ lret = {}
    /\ lfile = "none"
    /\ lread = <<>>

\* load_excluded_extensions up to its loop: no path gives the empty set, a
\* missing file gives the empty set, any other failure to open is raised.
LoadOpen(file_path, file) ==
    /\ lpc = "idle"
    /\ load_exts' = {}
    /\ lfile' = IF file_path THEN file ELSE "none"
    /\ lread' = <<>>
    /\ IF ~file_path \/ file = "missing"
       THEN lpc' = "returned" /\ lret' = {}
       ELSE IF file = "unreadable"
       THEN lpc' = "raised" /\ UNCHANGED lret
       ELSE lpc' = "lines" /\ UNCHANGED lret
    /\ UNCHANGED <<cvars, wvars>>

\* The body of the loop for the next line; behind a line without line end
\* the file is at its end and exts is returned.
LoadLine(raw) ==
    /\ lpc = "lines"
    /\ Len(lread) < MaxExclusionLines
    /\ lread' = Append(lread, raw)
    /\ LET line == StripLine(raw)
           added == IF line = <<>> \/ StartsWith(line, <<"#">>)
                    THEN load_exts
                    ELSE load_exts \cup {Normalized(line)}
       IN  /\ load_exts' = added
           /\ IF raw[Len(raw)] = LF
              THEN UNCHANGED <<lpc, lret>>
              ELSE lpc' = "returned" /\ lret' = added
    /\ UNCHANGED <<cvars, wvars, lfile>>

\* The file is at its end: exts is returned.
LoadEof ==
    /\ lpc = "lines"
    /\ lpc' = "returned"
    /\ lret' = load_exts
    /\ UNCHANGED <<cvars, wvars, load_exts, lfile, lread>>

\* The next bytes of the file are not UTF-8: UnicodeDecodeError is raised.
LoadDecodeFails ==
    /\ lpc = "lines"
    /\ lpc' = "raised"
    /\ UNCHANGED <<cvars, wvars, load_exts, lret, lfile, lread>>

LoadNext ==
    \/ \E file_path \in BOOLEAN, file \in {"missing", "unreadable", "text"} :
           LoadOpen(file_path, file)
    \/ \E raw \in RawLines : LoadLine(raw)
    \/ LoadEof
    \/ LoadDecodeFails

\* ------------------------------------------------ specifications
vars == <<cvars, wvars, lvars>>

\* No file is being counted, main has not begun and no exclusion file is
\* being loaded.
Init == ClassifyInit /\ WalkIdle /\ LoadIdle

SpecClassify == Init /\ [][ClassifyNext]_vars

SpecWalk == Init /\ [][WalkNext]_vars

SpecLoad == Init /\ [][LoadNext]_vars

\* ------------------------------------------------- classifier claims
\* The block-comment-free text of the line under the scanner.
Processed == Join(out_chunks)

\* What the current line added to eLOC.
Contribution == eloc - line_start.eloc

\* C1: for every file content and every comment syntax the result satisfies
\* 0 <= eloc <= loc; while the file is read, eloc is at most the number of
\* lines read so far.
C1_ElocWithinLoc ==
    /\ pc = "returned" => (0 <= ret[1] /\ ret[1] <= ret[2])
    /\ pc \in {"for", "while", "judge"} => (0 <= eloc /\ eloc <= loc - todo)
    /\ pc = "endline" => (0 <= eloc /\ eloc <= loc - todo + 1)

C1_Witness ==
    /\ pc = "returned"
    /\ ret[2] = loc
    /\ 1 <= ret[1]
    /\ ret[1] < ret[2]

\* The parts of line t from index k on that lie outside block comments, read
\* one character at a time from the scan state (inb, end): the text outside,
\* and the scan state at the end of the line.
RECURSIVE OutsideBlocks(_, _, _, _, _)
OutsideBlocks(t, k, inb, end, pairs) ==
    IF k >= Len(t)
    THEN [text |-> <<>>, in_block |-> inb, current_end |-> end]
    ELSE IF inb
    THEN (IF OccursAt(t, end, k)
          THEN OutsideBlocks(t, k + Len(end), FALSE, None, pairs)
          ELSE OutsideBlocks(t, k + 1, TRUE, end, pairs))
    ELSE IF \E j \in 1..Len(pairs) : OccursAt(t, pairs[j][1], k)
    THEN LET j == SetMin({m \in 1..Len(pairs) : OccursAt(t, pairs[m][1], k)})
         IN  OutsideBlocks(t, k + Len(pairs[j][1]), TRUE, pairs[j][2], pairs)
    ELSE LET rest == OutsideBlocks(t, k + 1, FALSE, None, pairs)
         IN  [rest EXCEPT !.text = <<t[k + 1]>> \o rest.text]

\* Text that starts, after leading whitespace, with a line-comment prefix.
IsLineComment(text, prefixes) ==
    LET ks == {k \in 0..(Len(text) - 1) : text[k + 1] \notin Whitespace}
    IN  ks # {} /\ \E lp \in prefixes : OccursAt(text, lp, SetMin(ks))

IsBlank(text) == \A k \in 1..Len(text) : text[k] \in Whitespace

\* C2 (as amended): the text of a line that is judged is the concatenation of
\* the parts of the line outside block comments, with the scan state carried
\* over from the previous line and resumed on the same line after an end
\* token; the line contributes 1 when that text is non-blank and does not
\* start, after leading whitespace, with a line-comment prefix, and 0
\* otherwise, so a line wholly inside block comments contributes 0.
C2_OutsideBlockText ==
    pc = "endline" =>
        LET ref == OutsideBlocks(s, 0, line_start.in_block,
                                 line_start.current_end, block_pairs)
        IN  /\ Processed = ref.text
            /\ in_block = ref.in_block
            /\ current_end = ref.current_end
            /\ Contribution =
                 (IF ~IsBlank(ref.text) /\ ~IsLineComment(ref.text, line_prefixes)
                  THEN 1 ELSE 0)
            /\ (ref.text = <<>> => Contribution = 0)

\* A line that starts inside a block comment, closes it, holds code and opens
\* a block comment again.
C2_Witness ==
    /\ pc = "endline"
    /\ line_start.in_block
    /\ in_block
    /\ ~IsBlank(Processed)
    /\ Contribution = 1

\* C2 (as stated): a line with code before a block start or after a block end
\* contributes 1: wherever a part of the line is inside a block comment and
\* one of the chunks outside is code (non-blank, and not itself a line
\* comment), the line adds 1 to eLOC.
C2_CodeBesideBlockCounts ==
    (/\ pc = "endline"
     /\ Processed # s
     /\ \E k \in 1..Len(out_chunks) :
            /\ ~IsBlank(out_chunks[k])
            /\ ~IsLineComment(out_chunks[k], line_prefixes))
        => Contribution = 1

\* C3: for a syntax with a line-comment prefix, a line whose block-comment-free
\* text is non-blank contributes 0 if that text, after leading whitespace,
\* starts with a line-comment prefix and 1 otherwise; a prefix after code on
\* the line never turns the contribution to 0.
C3_LineCommentAtStartOnly ==
    (pc = "endline" /\ line_prefixes # {} /\ ~IsBlank(Processed)) =>
        /\ IsLineComment(Processed, line_prefixes) => Contribution = 0
        /\ ~IsLineComment(Processed, line_prefixes) => Contribution = 1

\* A counted line with a line-comment prefix after its code.
C3_Witness ==
    /\ pc = "endline"
    /\ line_prefixes # {}
    /\ Contribution = 1
    /\ \E lp \in line_prefixes : Find(Processed, lp, 1) # -1

\* C4: the scanner is in a block comment whose end token does not occur in
\* what is left of the line.
C4_NoEndAhead ==
    /\ in_block
    /\ pc = "while" => Find(s, current_end, i) = -1
    /\ pc \in {"judge", "endline"} => ~(i < Len(s))

\* C4: a step of the scanner inside one file that reads no end token.
C4_StepWithoutEnd ==
    /\ C4_NoEndAhead
    /\ pc \in {"for", "while", "judge", "endline"}
    /\ pc' # "returned"
    /\ (pc = "for" => Find(s', current_end, 0) = -1)

\* C4: once a block comment is open and its end token does not occur in the
\* rest of the file, the scanner stays in block-comment mode with that token
\* pending; every line that starts in a block comment and does not hold the
\* end token contributes 0; and a file that is one block comment opened at the
\* start of line 1 and never closed has eloc = 0.
C4_UnclosedBlockToEof ==
    [][/\ C4_StepWithoutEnd => (in_block' /\ current_end' = current_end)
       /\ (/\ pc' = "endline"
           /\ line_start'.in_block
           /\ Find(s', line_start'.current_end, 0) = -1)
              => (in_block' /\ Contribution' = 0)
       /\ (pc' \in {"for", "endline"} /\ obs'.unclosed # {})
              => (in_block' /\ current_end' \in obs'.unclosed /\ eloc' = 0)
       /\ (pc' = "returned" /\ obs'.unclosed # {}) => ret'[1] = 0]_vars

\* A file of MaxLines lines, none blank, that is one unclosed block comment.
C4_Witness ==
    /\ pc = "returned"
    /\ obs.unclosed # {}
    /\ ret[2] >= 2
    /\ obs.nonblank = ret[2]

\* The extensions the syntax table gives a comment syntax.
ConfiguredExtensions ==
    c_like \cup hash_line
        \cup { <<".","p","h","p">>, <<".","p","h","t","m","l">>,
               <<".","s","q","l">>, <<".","h","t","m","l">>, <<".","h","t","m">>,
               <<".","x","m","l">>, <<".","x","h","t","m","l">>,
               <<".","l","u","a">> }

\* C5: for a file whose extension has no comment syntax every non-blank line
\* counts, so eloc is the number of non-blank lines, and loc = eloc when no
\* line is blank.
C5_NoSyntaxCountsNonBlank ==
    ext \notin ConfiguredExtensions =>
        /\ pc \in {"for", "endline"} => eloc = obs.nonblank
        /\ pc = "returned" =>
              /\ ret[1] = obs.nonblank
              /\ obs.nonblank = ret[2] => ret[1] = ret[2]

\* A second counted line that starts with '#', in a file of no known syntax.
C5_Witness ==
    /\ pc = "endline"
    /\ ext \notin ConfiguredExtensions
    /\ StartsWith(s, HASH)
    /\ Contribution = 1
    /\ eloc = 2

\* ----------------------------------------------------- walker claims
\* The file name of a path, and its directories.
NameOf(path) == path[Len(path)]

UnderSkipDir(path) == \E k \in 1..(Len(path) - 1) : path[k] \in skip_dirs

HasExcludedExtension(path) == Lower(Suffix(NameOf(path))) \in excluded_exts

\* The sum of a column of a sequence of rows.
RECURSIVE SumOf(_, _)
SumOf(rows, col) ==
    IF rows = <<>> THEN 0 ELSE Head(rows)[col] + SumOf(Tail(rows), col)

\* The per-language aggregates as rows (files, eloc, loc).
LangAggRows == [k \in 1..Len(lang_totals) |-> lang_totals[k][2]]

\* C6: a file that fails to decode as text, or that fails to open, is
\* classified as (0, 0) and dropped: it is not counted in any aggregate.
C6_FailedFileDropped ==
    (last.fate # "none" /\ (~last.opens \/ ~last.decodes)) =>
        /\ last.counts = <<0, 0>>
        /\ last.fate # "counted"

\* A file whose bytes do not decode has just been met by the loop.
C6_Witness ==
    /\ wpc = "walk"
    /\ last.fate # "none"
    /\ last.opens
    /\ ~last.decodes

\* C7: no file with an excluded extension and no file under a denylisted
\* directory is in the result list or in a per-language list, and the totals
\* are those of the result list; no denylisted directory is entered or
\* waiting to be entered.
C7_ExcludedAndPrunedNeverCounted ==
    /\ \A k \in 1..Len(results) :
          /\ ~HasExcludedExtension(results[k][1])
          /\ ~UnderSkipDir(results[k][1])
    /\ \A n \in 1..Len(lang_files) : \A k \in 1..Len(lang_files[n][2]) :
          /\ ~HasExcludedExtension(lang_files[n][2][k][1])
          /\ ~UnderSkipDir(lang_files[n][2][k][1])
    /\ total_files = Len(results)
    /\ total_eloc = SumOf(results, 2)
    /\ total_loc = SumOf(results, 3)
    /\ \A k \in 1..Len(dpath) : dpath[k] \notin skip_dirs
    /\ \A n \in 1..Len(pending) : \A k \in 1..Len(pending[n]) :
          pending[n][k] \notin skip_dirs

\* Behind a counted file, a file with an excluded extension (its suffix in
\* upper case) has been skipped in a subdirectory, and a denylisted
\* directory has been pruned.
C7_Witness ==
    /\ wpc = "walk"
    /\ seen.pruned
    /\ last.fate = "excluded"
    /\ Suffix(NameOf(last.fpath)) \notin excluded_exts
    /\ Len(last.fpath) >= 2
    /\ results # <<>>

\* C8: at every step of the walk and after it, each counted file is folded
\* into every aggregate exactly once: filesCounted is the length of the
\* result list and the sum of the per-language file counts, the totals are
\* the sums over the result list and over the languages, each counted file
\* is in the list of exactly one language, that of its extension, and every
\* listed file has loc >= 1.
C8_FoldedExactlyOnce ==
    /\ total_files = Len(results)
    /\ total_files = SumOf(LangAggRows, 1)
    /\ total_eloc = SumOf(results, 2)
    /\ total_eloc = SumOf(LangAggRows, 2)
    /\ total_loc = SumOf(results, 3)
    /\ total_loc = SumOf(LangAggRows, 3)
    /\ \A j, k \in 1..Len(results) : results[j][1] = results[k][1] => j = k
    /\ \A k \in 1..Len(results) :
          /\ results[k][3] >= 1
          /\ \A n \in 1..Len(lang_files) :
                (\E m \in 1..Len(lang_files[n][2]) : lang_files[n][2][m] = results[k])
                    <=> lang_files[n][1]
                            = language_for_extension(
                                  Lower(Suffix(NameOf(results[k][1]))))
    /\ \A n \in 1..Len(lang_files) :
          /\ Len(lang_files[n][2]) = Get(lang_totals, lang_files[n][1], <<0, 0, 0>>)[1]
          /\ SumOf(lang_files[n][2], 2) = Get(lang_totals, lang_files[n][1], <<0, 0, 0>>)[2]
          /\ SumOf(lang_files[n][2], 3) = Get(lang_totals, lang_files[n][1], <<0, 0, 0>>)[3]
          /\ \A j, k \in 1..Len(lang_files[n][2]) :
                lang_files[n][2][j][1] = lang_files[n][2][k][1] => j = k
          /\ \A m \in 1..Len(lang_files[n][2]) :
                /\ lang_files[n][2][m][3] >= 1
                /\ \E k \in 1..Len(results) : results[k] = lang_files[n][2][m]
    /\ Len(lang_totals) = Len(lang_files)
    /\ \A n \in 1..Len(lang_totals) : HasKey(lang_files, lang_totals[n][1])
    /\ \A j, k \in 1..Len(lang_files) : lang_files[j][1] = lang_files[k][1] => j = k

\* The loop has just counted a second file, of a second language, in a
\* subdirectory.
C8_Witness ==
    /\ wpc = "walk"
    /\ Len(results) = 2
    /\ Len(lang_totals) = 2
    /\ total_eloc < total_loc
    /\ last.fate = "counted"
    /\ Len(last.fpath) >= 2

\* The sections whose printing main guards with the result list.
RankedSections == {"top", "latest", "languages", "toplang"}

\* C9 as stated: every report section, the live tree and the Summary block
\* among them, is printed only if there is at least one counted file, so a
\* run that ends with no counted file has printed none of them.
C9_SectionsOnlyWithCountedFiles ==
    (wpc = "done" /\ total_files = 0) => printed = {}

\* C9: the Top-N, Latest top-M, per-language summary and per-language top-K
\* sections are printed only if there is at least one counted file, and a
\* run over a valid root always prints the tree's directory headers and the
\* Summary block: those two and nothing else where no file is counted.
C9_RankingsOnlyWithCountedFiles ==
    /\ printed \cap RankedSections # {} => total_files >= 1
    /\ (wpc = "done" /\ rc = 0) => {"tree", "summary"} \subseteq printed
    /\ (wpc = "done" /\ rc = 0 /\ total_files = 0) => printed = {"tree", "summary"}
    /\ (wpc = "done" /\ rc = 0 /\ total_files >= 1) =>
          {"top", "latest", "languages"} \subseteq printed

\* A run over a root with files and no counted file has ended.
C9_Witness ==
    /\ wpc = "done"
    /\ rc = 0
    /\ total_files = 0
    /\ excluded_exts # {}
    /\ printed = {"tree", "summary"}
    /\ out[1].kind = "summary"

\* The rows of a ranked listing in what the last step printed.
IsRow(line) == line.kind \in {"top_row", "latest_row", "lang_row"}

SameListing(a, b) ==
    /\ a.kind = b.kind
    /\ a.kind = "lang_row" => a.lang = b.lang

TiedCounts(a, b) == a.eloc = b.eloc /\ a.loc = b.loc

InPathOrder(a, b) ==
    ~StrLess(Lower(PathStr(b.path)), Lower(PathStr(a.path)))

\* C10 as stated: in every ranked listing, the Latest top-M among them, two
\* files with the same eLOC and the same LOC are in the order of their
\* lowercased paths.
C10_TiesByPathEverywhere ==
    \A j, k \in 1..Len(out) :
        (/\ j < k
         /\ IsRow(out[j])
         /\ IsRow(out[k])
         /\ SameListing(out[j], out[k])
         /\ TiedCounts(out[j], out[k])) => InPathOrder(out[j], out[k])

\* C10: in the Top-N listing and in each per-language top-K list two files
\* with the same eLOC and the same LOC are in the order of their lowercased
\* paths; the Latest top-M listing is in the order of the modification
\* times, newest first, and two files with the same modification time are
\* in the order of their lowercased paths, whatever their eLOC and LOC.
C10_TiesByPath ==
    \A j, k \in 1..Len(out) :
        (j < k /\ IsRow(out[j]) /\ IsRow(out[k]) /\ SameListing(out[j], out[k])) =>
            IF out[j].kind = "latest_row"
            THEN /\ out[j].mtime >= out[k].mtime
                 /\ out[j].mtime = out[k].mtime => InPathOrder(out[j], out[k])
            ELSE TiedCounts(out[j], out[k]) => InPathOrder(out[j], out[k])

\* The Top-N listing shows two files with the same eLOC and LOC whose paths
\* are in one order as they are and in the other order in lower case.
C10_Witness ==
    /\ wpc = "latest"
    /\ Len(out) = 3
    /\ out[2].kind = "top_row"
    /\ out[3].kind = "top_row"
    /\ TiedCounts(out[2], out[3])
    /\ StrLess(PathStr(out[3].path), PathStr(out[2].path))
    /\ StrLess(Lower(PathStr(out[2].path)), Lower(PathStr(out[3].path)))

\* The lines of one kind in what the last step printed, in order.
LinesOfKind(kind) == SelectSeq(out, LAMBDA line : line.kind = kind)

\* a is not behind b by (eLOC sum descending, LOC sum descending, lowercased
\* language name ascending).
InLanguageOrder(a, b) ==
    \/ a.eloc > b.eloc
    \/ a.eloc = b.eloc /\ a.loc > b.loc
    \/ a.eloc = b.eloc /\ a.loc = b.loc /\ ~StrLess(Lower(b.lang), Lower(a.lang))

\* C11: the per-language summary shows every language once with its totals,
\* "Unknown" last whatever its totals and the other languages by (eLOC sum
\* descending, LOC sum descending, lowercased name ascending); the
\* per-language top-K lists are those of the first L languages of that
\* order, "Unknown" left out, in that order.
C11_UnknownLastOthersRanked ==
    (out # <<>> /\ out[1].kind = "lang_header") =>
        LET langs == LinesOfKind("lang")
            named == SelectSeq(langs, LAMBDA line : line.lang # Unknown)
            lists == LinesOfKind("lang_top_header")
            first == Take(named, out[1].top_lang)
        IN  /\ Len(langs) = Len(attached.lang_totals)
            /\ \A n \in 1..Len(attached.lang_totals) :
                  \E k \in 1..Len(langs) :
                      /\ langs[k].lang = attached.lang_totals[n][1]
                      /\ <<langs[k].files, langs[k].eloc, langs[k].loc>>
                             = attached.lang_totals[n][2]
            /\ \A k \in 1..(Len(langs) - 1) : langs[k].lang # Unknown
            /\ \A j, k \in 1..Len(named) :
                  j < k => InLanguageOrder(named[j], named[k])
            /\ Len(lists) = Len(first)
            /\ \A k \in 1..Len(lists) : lists[k].lang = first[k].lang

\* The summary shows "Unknown" last although its totals are the greater,
\* and the list of the one other language follows.
C11_Witness ==
    /\ wpc = "done"
    /\ out # <<>>
    /\ out[1].kind = "lang_header"
    /\ Len(LinesOfKind("lang")) = 2
    /\ LinesOfKind("lang")[2].lang = Unknown
    /\ LinesOfKind("lang")[2].loc > LinesOfKind("lang")[1].loc
    /\ Len(LinesOfKind("lang_top_header")) = 1

\* ------------------------------------------------ exclusion file claims
\* The places of a line that hold a character other than whitespace.
Inked(raw) == {k \in 1..Len(raw) : raw[k] \notin {" ", "\t", "\r", LF}}

\* The line is blank, or its first character other than whitespace is '#'.
Ignored(raw) == Inked(raw) = {} \/ raw[SetMin(Inked(raw))] = "#"

\* The entry of a line: its text between the first and the last character
\* other than whitespace, in lower case, behind a '.' where it has none.
EntryOf(raw) ==
    LET from == SetMin(Inked(raw))
        text == [k \in 1..(SetMax(Inked(raw)) - from + 1) |->
                    LowerChar(raw[from + k - 1])]
    IN  IF text[1] = "." THEN text ELSE <<".">> \o text

EntriesRead ==
    {EntryOf(lread[k]) : k \in {n \in 1..Len(lread) : ~Ignored(lread[n])}}

\* C12: load_excluded_extensions builds, and returns, exactly the set of
\* the entries of the lines read: blank lines and lines whose first
\* character other than whitespace is '#' add nothing, every other line
\* adds its trimmed text in lower case behind a '.' where it has none,
\* whatever the order and the repetitions; without a path and with a
\* missing file it returns the empty set and raises nothing.
C12_LoadsNormalizedEntries ==
    /\ lpc = "lines" => load_exts = EntriesRead
    /\ lpc = "returned" => lret = EntriesRead
    /\ (lpc # "idle" /\ lfile \in {"none", "missing"}) =>
          lpc = "returned" /\ lret = {}

\* Two different lines, the first in upper case or without dot, have given
\* one entry.
C12_Witness ==
    /\ lpc = "returned"
    /\ Len(lread) = 2
    /\ lread[1] # lread[2]
    /\ ~Ignored(lread[1])
    /\ ~Ignored(lread[2])
    /\ StripLine(lread[1]) # EntryOf(lread[1])
    /\ Cardinality(lret) = 1

\* ------------------------------------------------ classifier state claim
\* A step that begins a file.
BeginsFile == pc \in {"idle", "returned"} /\ pc' = "for"

\* C13: at every step of classifying a sequence of files the pending end
\* token is set exactly when the scanner is inside a block comment, the
\* assertion of the scan loop never fails, and every file begins outside a
\* block comment with no pending end token, however the file before ended.
C13_PendingEndIffInBlock ==
    /\ [](in_block <=> current_end # None)
    /\ [](pc # "AssertionError")
    /\ [][BeginsFile => (~in_block' /\ current_end' = None)]_vars

\* A file of two lines has ended inside a block comment that its first line
\* opened, the end token still pending when the next file is opened.
C13_Witness ==
    /\ pc = "returned"
    /\ ret[2] = 2
    /\ in_block
    /\ current_end # None
    /\ obs.unclosed # {}

====
